---- MODULE Spec2Model ----
(***************************************************************************)
(* A model of src/main.py: the NIFTY 50 snapshot analyser.                 *)
(*                                                                         *)
(* Numbers.  pChange values are modelled in tenths of a percent and close  *)
(* prices in whole currency units, both as integers; close prices are      *)
(* strictly positive.  The threshold tests follow the double arithmetic of *)
(* the code (see IsBelowHigh).  The ratios used as sort keys (price / high,*)
(* (cur - old) / old * 100) are kept as exact fractions and compared by    *)
(* cross-multiplication: on whole prices of this size two different        *)
(* fractions never round to the same double.                               *)
(*                                                                         *)
(* Strings.  A string is a sequence of one-character strings, so that the  *)
(* str -> strip '%' -> float conversion of pChange is computed, not        *)
(* assumed.                                                                *)
(***************************************************************************)
EXTENDS FiniteSets, Integers, Sequences, TLC

VARIABLES
    pc,            \* position of main()
    live_df,       \* the live snapshot DataFrame (main's live_df)
    symbols,       \* NSEDataAnalyzer.symbols
    provider,      \* what yfinance returned for each symbol asked
    hist_data,     \* the dict symbol -> history DataFrame, in insertion order
    gainers,       \* result of get_top_gainers_losers
    losers,
    below_high,    \* result of get_52week_analysis
    above_low,
    returns_30d,   \* result of get_30day_returns
    output_lines,  \* main's output_lines
    results_txt,   \* content of data/results.txt written by this run
    log            \* ERROR and WARNING records written to nse_data.log

vars == <<pc, live_df, symbols, provider, hist_data, gainers, losers,
          below_high, above_low, returns_30d, output_lines, results_txt, log>>

----------------------------------------------------------------------------
(* Bounds of the model *)

\* most rows of a snapshot handed to get_top_gainers_losers
MaxQuotes == 6
\* most rows of a payload the live source returns in a run of main
MaxRows == 2
\* most symbols in the historical store when the per-symbol rules are checked
MaxStore == 2
\* most symbols in the historical store when the rankings are checked
NumSyms == 6

(* Program constants *)

\* head(5), [:5]
TopN == 5
\* 0.70, as a percentage
HighPct == 70
\* 1.20, as a percentage
LowPct == 120
\* the 30-observation window: shape[0] < 30, iloc[-30]
Window == 30

\* results.txt: not opened by this run, or opened for writing and holding
\* these lines; closed tells that the with block ran to its end
NoFile == [written |-> FALSE, closed |-> FALSE, lines |-> <<>>]
File(lines, closed) == [written |-> TRUE, closed |-> closed, lines |-> lines]

Max(a, b) == IF a >= b THEN a ELSE b
Min(a, b) == IF a <= b THEN a ELSE b

SymNames == <<"A", "B", "C", "D", "E", "F", "G", "H">>

----------------------------------------------------------------------------
(* Strings and the pChange conversion *)

Digits == <<"0", "1", "2", "3", "4", "5", "6", "7", "8", "9">>

IsDigit(ch) == \E d \in 1..10 : Digits[d] = ch

DigitVal(ch) == (CHOOSE d \in 1..10 : Digits[d] = ch) - 1

RECURSIVE NatStr(_)
\* the decimal digits of a natural number
NatStr(n) == IF n < 10 THEN <<Digits[n + 1]>>
             ELSE NatStr(n \div 10) \o <<Digits[(n % 10) + 1]>>

RECURSIVE NatVal(_)
\* the value of a non-empty string of digits
NatVal(s) == IF Len(s) = 0 THEN 0
             ELSE 10 * NatVal(SubSeq(s, 1, Len(s) - 1)) + DigitVal(s[Len(s)])

\* str(x) of a float x = v / 10: sign, integer part, ".", one decimal
FloatRepr(v) ==
    LET a == IF v < 0 THEN -v ELSE v
    IN  (IF v < 0 THEN <<"-">> ELSE <<>>) \o NatStr(a \div 10) \o <<".">>
           \o NatStr(a % 10)

\* float(s): [ok, v], v in tenths; ok = FALSE stands for ValueError.
\* Accepts [sign] digits [ "." [digit] ].
ParseFloat(s) ==
    LET signed == Len(s) > 0 /\ s[1] \in {"-", "+"}
        body   == IF signed THEN SubSeq(s, 2, Len(s)) ELSE s
        dots   == {i \in 1..Len(body) : body[i] = "."}
        dot    == IF dots = {} THEN Len(body) + 1 ELSE CHOOSE i \in dots : TRUE
        ip     == SubSeq(body, 1, dot - 1)
        fp     == SubSeq(body, dot + 1, Len(body))
        good   == /\ Cardinality(dots) <= 1
                  /\ Len(ip) > 0
                  /\ Len(fp) <= 1
                  /\ \A i \in 1..Len(ip) : IsDigit(ip[i])
                  /\ \A i \in 1..Len(fp) : IsDigit(fp[i])
        mag    == 10 * NatVal(ip) + NatVal(fp)
    IN  IF good
        THEN [ok |-> TRUE, v |-> IF signed /\ s[1] = "-" THEN -mag ELSE mag]
        ELSE [ok |-> FALSE, v |-> 0]

\* A cell of the pChange column: a float, or a string
FloatCell(v) == [t |-> "float", v |-> v, s |-> <<>>]
StrCell(s) == [t |-> "str", v |-> 0, s |-> s]
NaCell == [t |-> "absent", v |-> 0, s |-> <<>>]

\* .astype(str)
AsTypeStr(c) == IF c.t = "str" THEN c.s ELSE FloatRepr(c.v)

\* .str.replace('%', '')
StrReplacePct(s) == SelectSeq(s, LAMBDA ch : ch # "%")

\* .astype(str).str.replace('%', '').astype(float) of one cell
ToFloat(c) == ParseFloat(StrReplacePct(AsTypeStr(c)))

----------------------------------------------------------------------------
(* DataFrames of quotes *)

\* a frame with the given columns; row i is the quote of the i-th symbol
Frame(keys, cells) ==
    [cols |-> keys,
     rows |-> [i \in 1..Len(cells) |->
                 [symbol  |-> IF "symbol" \in keys THEN SymNames[i] ELSE "",
                  pChange |-> IF "pChange" \in keys THEN cells[i] ELSE NaCell]]]

\* pd.DataFrame(data["data"]): the columns are the keys of the rows, and a
\* frame built from no rows has no columns
DataFrame(keys, cells) ==
    IF Len(cells) = 0 THEN Frame({}, <<>>) ELSE Frame(keys, cells)

RECURSIVE SeqsUpTo(_, _)
\* the sequences over S of length at most n
SeqsUpTo(S, n) ==
    IF n = 0 THEN {<<>>}
    ELSE LET shorter == SeqsUpTo(S, n - 1)
         IN  shorter \cup {Append(q, x) : q \in {r \in shorter : Len(r) = n - 1},
                                         x \in S}

----------------------------------------------------------------------------
(* sort_values and head *)

\* the pChange of row i as a number, when every cell is a float
Key(rows, i) == rows[i].pChange.v

RECURSIVE SortedOrders(_, _, _)
\* sort_values("pChange", ascending=asc) with the default kind="quicksort",
\* which is not a stable sort: every order of the row positions S that is
\* monotone in the key is a possible outcome.
SortedOrders(rows, S, asc) ==
    IF S = {} THEN {<<>>}
    ELSE LET first == {i \in S : \A j \in S :
                          IF asc THEN Key(rows, i) <= Key(rows, j)
                                 ELSE Key(rows, i) >= Key(rows, j)}
         IN  UNION {{<<i>> \o rest : rest \in SortedOrders(rows, S \ {i}, asc)}
                    : i \in first}

\* HeadRows without the truncation: the whole sorted frame is returned
HeadRowsAll(rows, order, n) ==
    [k \in 1..Len(order) |->
        [idx |-> order[k], symbol |-> rows[order[k]].symbol,
         pChange |-> rows[order[k]].pChange.v]]

\* .head(n) of the frame in the given row order; idx is the index label
HeadRows(rows, order, n) ==
    [k \in 1..Min(n, Len(order)) |->
        [idx |-> order[k], symbol |-> rows[order[k]].symbol,
         pChange |-> rows[order[k]].pChange.v]]

----------------------------------------------------------------------------
(* Logging and main's handler *)

Err(msg, arg) == [level |-> "ERROR", msg |-> msg, arg |-> arg]
Warn(msg, arg) == [level |-> "WARNING", msg |-> msg, arg |-> arg]

MainError == Err("An error occurred in main execution", "")

\* an exception raised by a method that logs it and re-raises; main's
\* handler logs it again and main returns
Raise(msg) ==
    /\ log' = log \o <<Err(msg, ""), MainError>>
    /\ pc' = "done"

----------------------------------------------------------------------------
(* NSEDataAnalyzer.get_top_gainers_losers *)

\* the column assignment: the normalised rows, or a raise
PChangeParsable(df) ==
    /\ "pChange" \in df.cols
    /\ \A i \in 1..Len(df.rows) : ToFloat(df.rows[i].pChange).ok

NormalisedRows(df) ==
    [i \in 1..Len(df.rows) |->
        [df.rows[i] EXCEPT !.pChange = FloatCell(ToFloat(df.rows[i].pChange).v)]]

GetTopGainersLosers ==
    /\ pc = "top_gainers_losers"
    /\ IF PChangeParsable(live_df)
       THEN LET rows == NormalisedRows(live_df)
            IN  /\ live_df' = [live_df EXCEPT !.rows = rows]
                /\ \E g \in SortedOrders(rows, DOMAIN rows, FALSE),
                      l \in SortedOrders(rows, DOMAIN rows, TRUE) :
                      /\ gainers' = HeadRows(rows, g, TopN)
                      /\ losers' = HeadRows(rows, l, TopN)
                /\ pc' = "report_gainers_losers"
                /\ UNCHANGED log
       ELSE /\ Raise("Error computing top gainers/losers")
            /\ UNCHANGED <<live_df, gainers, losers>>
    /\ UNCHANGED <<symbols, provider, hist_data, below_high, above_low,
                   returns_30d, output_lines, results_txt>>

----------------------------------------------------------------------------
(* History DataFrames and the historical store *)

\* a history frame with a Close column holding the given closes
Hist(closes) == [close_col |-> TRUE, close |-> closes]

\* a history frame of n rows that has no Close column: df["Close"] raises
HistNoClose(n) == [close_col |-> FALSE, close |-> [i \in 1..n |-> 0]]

\* df.empty, df.shape[0]
Empty(df) == Len(df.close) = 0
Shape0(df) == Len(df.close)

\* df["Close"].iloc[-k]
ILocFromEnd(df, k) == df.close[Len(df.close) - k + 1]

RECURSIVE SeqMax(_)
\* df["Close"].max()
SeqMax(s) == IF Len(s) = 1 THEN s[1]
             ELSE Max(SeqMax(SubSeq(s, 1, Len(s) - 1)), s[Len(s)])

RECURSIVE SeqMin(_)
\* df["Close"].min()
SeqMin(s) == IF Len(s) = 1 THEN s[1]
             ELSE Min(SeqMin(SubSeq(s, 1, Len(s) - 1)), s[Len(s)])

\* the dict as the sequence of its items, in insertion order
Keys(d) == {d[i].sym : i \in 1..Len(d)}

\* data[sym] = hist
DictSet(d, sym, df) ==
    IF sym \in Keys(d)
    THEN [i \in 1..Len(d) |-> IF d[i].sym = sym THEN [sym |-> sym, df |-> df]
                                               ELSE d[i]]
    ELSE Append(d, [sym |-> sym, df |-> df])

----------------------------------------------------------------------------
(* sorted(): Python's stable sort, on items carrying a rational key kn/kd *)

\* a.kn / a.kd < b.kn / b.kd, with positive denominators
KeyLess(a, b) == a.kn * b.kd < b.kn * a.kd

\* insert x behind every item whose key is not greater than x's
InsertStable(sorted, x) ==
    LET k == Cardinality({i \in 1..Len(sorted) : ~KeyLess(x, sorted[i])})
    IN  SubSeq(sorted, 1, k) \o <<x>> \o SubSeq(sorted, k + 1, Len(sorted))

RECURSIVE StableSort(_)
StableSort(s) ==
    IF Len(s) = 0 THEN <<>>
    ELSE InsertStable(StableSort(SubSeq(s, 1, Len(s) - 1)), s[Len(s)])

\* [:n]
Take(s, n) == SubSeq(s, 1, Min(n, Len(s)))

----------------------------------------------------------------------------
(* NSEDataAnalyzer.get_52week_analysis *)

RECURSIVE FloorLog2(_)
\* the exponent of the double n: the largest k with 2^k <= n
FloorLog2(n) == IF n < 2 THEN 0 ELSE 1 + FloorLog2(n \div 2)

\* current_price <= 0.70 * high_52w, in IEEE-754 double arithmetic on whole
\* prices.  The literal 0.70 is the double 0.7 - 0.4 * 2^-53, so the exact
\* product lies 0.4 * high * 2^-53 below 7 * high / 10 and is then rounded to
\* the nearest double.  Away from the boundary the rounding cannot change the
\* comparison.  On the boundary, cur = 7 * high / 10, the product rounds up
\* to cur only if that gap is at most half the spacing of the doubles below
\* cur, 2^(FloorLog2(cur) - 53): 0.4 * high <= 2^FloorLog2(cur).
IsBelowHigh(cur, high) ==
    IF cur * 100 = HighPct * high
    THEN 2 * high <= 5 * (2 ^ FloorLog2(cur))
    ELSE cur * 100 < HighPct * high

\* IsAboveLow without the 20% margin
IsAboveLowNoMargin(cur, low) == cur >= low

\* current_price >= 1.20 * low_52w.  The literal 1.20 is a double just
\* below 1.2, so the rounded product never exceeds 12 * low / 10 and the
\* comparison on whole prices is the exact one.
IsAboveLow(cur, low) == cur * 100 >= LowPct * low

\* one pass of the loop body, for the item (sym, df): the try block, its
\* continue for an empty frame, and the except that logs and continues
Week52Step(r, sym, df) ==
    LET cur  == ILocFromEnd(df, 1)
        high == SeqMax(df.close)
        low  == SeqMin(df.close)
    IN  IF Empty(df) THEN r
        ELSE IF ~df.close_col
        THEN [r EXCEPT !.errs = Append(@, Err("Error in 52-week analysis", sym))]
        ELSE [below |-> IF IsBelowHigh(cur, high)
                        THEN Append(r.below, <<sym, cur, high>>) ELSE r.below,
              above |-> IF IsAboveLow(cur, low)
                        THEN Append(r.above, <<sym, cur, low>>) ELSE r.above,
              errs  |-> r.errs]

RECURSIVE Week52Loop(_)
\* the loop over hist_data.items(): the two candidate lists and the errors
\* logged, after the items given
Week52Loop(items) ==
    IF Len(items) = 0 THEN [below |-> <<>>, above |-> <<>>, errs |-> <<>>]
    ELSE Week52Step(Week52Loop(SubSeq(items, 1, Len(items) - 1)),
                    items[Len(items)].sym, items[Len(items)].df)

\* sorted(below_high, key=lambda x: x[1] / x[2])
SortBelowHigh(s) ==
    LET keyed == [i \in 1..Len(s) |-> [x |-> s[i], kn |-> s[i][2], kd |-> s[i][3]]]
        out   == StableSort(keyed)
    IN  [i \in 1..Len(out) |-> out[i].x]

\* SortAboveLow without the negation of the key
SortAboveLowAscending(s) ==
    LET keyed == [i \in 1..Len(s) |-> [x |-> s[i], kn |-> s[i][2], kd |-> s[i][3]]]
        out   == StableSort(keyed)
    IN  [i \in 1..Len(out) |-> out[i].x]

\* sorted(above_low, key=lambda x: -(x[1] / x[2]))
SortAboveLow(s) ==
    LET keyed == [i \in 1..Len(s) |-> [x |-> s[i], kn |-> -s[i][2], kd |-> s[i][3]]]
        out   == StableSort(keyed)
    IN  [i \in 1..Len(out) |-> out[i].x]

Week52BelowHigh(d) == Take(SortBelowHigh(Week52Loop(d).below), TopN)

Week52AboveLow(d) == Take(SortAboveLow(Week52Loop(d).above), TopN)

Get52WeekAnalysis ==
    /\ pc = "week52"
    /\ below_high' = Week52BelowHigh(hist_data)
    /\ above_low' = Week52AboveLow(hist_data)
    /\ log' = log \o Week52Loop(hist_data).errs
    /\ pc' = "report_52week"
    /\ UNCHANGED <<live_df, symbols, provider, hist_data, gainers, losers,
                   returns_30d, output_lines, results_txt>>

----------------------------------------------------------------------------
(* NSEDataAnalyzer.get_30day_returns *)

\* Return30 dividing by the current price
Return30OverCurrent(cur, old) == [n |-> (cur - old) * 100, d |-> cur]

\* ((current_price - price_30d_ago) / price_30d_ago) * 100, as the
\* rational n / d
Return30(cur, old) == [n |-> (cur - old) * 100, d |-> old]

\* TooShort with <= in place of <
TooShortOffByOne(df) == Shape0(df) <= Window

\* df.shape[0] < 30
TooShort(df) == Shape0(df) < Window

\* one pass of the loop body, for the item (sym, df)
Returns30Step(r, sym, df) ==
    IF TooShort(df) THEN r
    ELSE IF ~df.close_col
    THEN [r EXCEPT !.errs = Append(@, Err("Error computing 30-day return", sym))]
    ELSE [r EXCEPT !.returns =
             Append(@, <<sym, Return30(ILocFromEnd(df, 1), ILocFromEnd(df, Window))>>)]

RECURSIVE Returns30Loop(_)
\* the loop over hist_data.items(): the returns list and the errors logged
Returns30Loop(items) ==
    IF Len(items) = 0 THEN [returns |-> <<>>, errs |-> <<>>]
    ELSE Returns30Step(Returns30Loop(SubSeq(items, 1, Len(items) - 1)),
                       items[Len(items)].sym, items[Len(items)].df)

\* sorted(returns, key=lambda x: x[1], reverse=True)
SortReturns(s) ==
    LET keyed == [i \in 1..Len(s) |-> [x |-> s[i], kn |-> -s[i][2].n, kd |-> s[i][2].d]]
        out   == StableSort(keyed)
    IN  [i \in 1..Len(out) |-> out[i].x]

Returns30(d) == SortReturns(Returns30Loop(d).returns)

Get30DayReturns ==
    /\ pc = "returns_30d"
    /\ returns_30d' = Returns30(hist_data)
    /\ log' = log \o Returns30Loop(hist_data).errs
    /\ pc' = "report_30day"
    /\ UNCHANGED <<live_df, symbols, provider, hist_data, gainers, losers,
                   below_high, above_low, output_lines, results_txt>>

----------------------------------------------------------------------------
(* The external collaborators *)

\* pChange cells a live payload may carry: 5.0, "-3.0%", "N/A"
RawCells == {FloatCell(50), StrCell(<<"-", "3", ".", "0", "%">>),
             StrCell(<<"N", "/", "A">>)}

\* what a request to the NSE API can produce: a failed request, a JSON
\* object without "data", or rows that all carry the same keys
LiveResponses ==
    {[status |-> "fail", has_data |-> FALSE, keys |-> {}, cells |-> <<>>],
     [status |-> "ok", has_data |-> FALSE, keys |-> {}, cells |-> <<>>]}
    \cup {[status |-> "ok", has_data |-> TRUE, keys |-> k, cells |-> c] :
            k \in {{"symbol", "pChange"}, {"symbol"}, {"pChange"}},
            c \in SeqsUpTo(RawCells, MaxRows)}

\* a series of n closes: old at the 30th place from the end, cur at the
\* end, pad everywhere else
Series(n, pad, old, cur) ==
    [i \in 1..n |-> IF i = n THEN cur ELSE IF i = n - Window + 1 THEN old ELSE pad]

\* what ticker.history can produce for one symbol: an exception, or a frame
HistoryResponses ==
    {[raised |-> TRUE, df |-> Hist(<<>>)]}
    \cup {[raised |-> FALSE, df |-> df] :
            df \in {Hist(<<>>), Hist(<<100, 70>>), HistNoClose(Window),
                    Hist(Series(Window, 95, 100, 110))}}

----------------------------------------------------------------------------
(* NSEDataFetcher *)

\* __init__: the session is primed, or the request raises
FetcherInit ==
    /\ pc = "init_fetcher"
    /\ \E primed \in BOOLEAN :
          IF primed THEN pc' = "fetch_live_data" /\ UNCHANGED log
          ELSE Raise("Error initiating session")
    /\ UNCHANGED <<live_df, symbols, provider, hist_data, gainers, losers,
                   below_high, above_low, returns_30d, output_lines, results_txt>>

\* fetch_live_data raises for this response
FetchFails(resp) == resp.status = "fail" \/ ~resp.has_data

\* live_df = fetcher.fetch_live_data()
FetchLiveData ==
    /\ pc = "fetch_live_data"
    /\ \E resp \in LiveResponses :
          IF FetchFails(resp)
          THEN Raise("Error fetching live data") /\ UNCHANGED live_df
          ELSE /\ live_df' = DataFrame(resp.keys, resp.cells)
               /\ pc' = "get_nifty50_symbols"
               /\ UNCHANGED log
    /\ UNCHANGED <<symbols, provider, hist_data, gainers, losers, below_high,
                   above_low, returns_30d, output_lines, results_txt>>

\* nifty50_symbols = fetcher.get_nifty50_symbols(), which fetches the live
\* data again; analyzer = NSEDataAnalyzer(nifty50_symbols)
GetNifty50Symbols ==
    /\ pc = "get_nifty50_symbols"
    /\ \E resp \in LiveResponses :
          LET df == DataFrame(resp.keys, resp.cells)
          IN  IF FetchFails(resp)
              THEN /\ log' = log \o <<Err("Error fetching live data", ""),
                                      Err("Error extracting symbols", ""), MainError>>
                   /\ pc' = "done"
                   /\ UNCHANGED symbols
              ELSE IF "symbol" \notin df.cols
              THEN Raise("Error extracting symbols") /\ UNCHANGED symbols
              ELSE /\ symbols' = [i \in 1..Len(df.rows) |-> df.rows[i].symbol \o ".NS"]
                   /\ pc' = "top_gainers_losers"
                   /\ UNCHANGED log
    /\ UNCHANGED <<live_df, provider, hist_data, gainers, losers, below_high,
                   above_low, returns_30d, output_lines, results_txt>>

----------------------------------------------------------------------------
(* NSEDataAnalyzer.fetch_yfinance_data *)

\* FetchStep without the test of hist.empty
FetchStepKeepsEmpty(r, sym, resp) ==
    IF resp.raised
    THEN [r EXCEPT !.logged = Append(@, Err("Error fetching data", sym))]
    ELSE [r EXCEPT !.data = DictSet(@, sym, resp.df)]

\* one pass of the loop body, for sym and the response to its request
FetchStep(r, sym, resp) ==
    IF resp.raised
    THEN [r EXCEPT !.logged = Append(@, Err("Error fetching data", sym))]
    ELSE IF Empty(resp.df)
    THEN [r EXCEPT !.logged = Append(@, Warn("No historical data", sym))]
    ELSE [r EXCEPT !.data = DictSet(@, sym, resp.df)]

RECURSIVE FetchLoop(_, _)
\* the loop over self.symbols, given the response to each request: the
\* dict built and the records logged
FetchLoop(syms, resps) ==
    IF Len(syms) = 0 THEN [data |-> <<>>, logged |-> <<>>]
    ELSE FetchStep(FetchLoop(SubSeq(syms, 1, Len(syms) - 1),
                             SubSeq(resps, 1, Len(syms) - 1)),
                   syms[Len(syms)], resps[Len(syms)])

FetchYfinanceData ==
    /\ pc = "fetch_yfinance_data"
    /\ \E resps \in [1..Len(symbols) -> HistoryResponses] :
          /\ provider' = resps
          /\ hist_data' = FetchLoop(symbols, resps).data
          /\ log' = log \o FetchLoop(symbols, resps).logged
    /\ pc' = "week52"
    /\ UNCHANGED <<live_df, symbols, gainers, losers, below_high, above_low,
                   returns_30d, output_lines, results_txt>>

----------------------------------------------------------------------------
(* main: the report *)

Hdr(title) == [t |-> "header", text |-> title, sym |-> "", a |-> 0, b |-> 0]
Sep == [t |-> "separator", text |-> "", sym |-> "", a |-> 0, b |-> 0]
Row(title, sym, a, b) == [t |-> "row", text |-> title, sym |-> sym, a |-> a, b |-> b]

Section(title, rows) == <<Hdr(title)>> \o rows \o <<Sep>>

\* an exception raised in main's own statements goes to main's handler
RaiseInMain ==
    /\ log' = Append(log, MainError)
    /\ pc' = "done"

\* ReportGainersLosers writing results.txt as soon as its sections exist
ReportGainersLosersEager ==
    /\ pc = "report_gainers_losers"
    /\ IF Len(gainers) > 0 /\ "symbol" \notin live_df.cols
       THEN /\ output_lines' = Append(output_lines, Hdr("Top 5 Gainers"))
            /\ RaiseInMain
       ELSE /\ output_lines' = output_lines
               \o Section("Top 5 Gainers",
                          [i \in 1..Len(gainers) |->
                              Row("% Change", gainers[i].symbol, gainers[i].pChange, 0)])
               \o Section("Top 5 Losers",
                          [i \in 1..Len(losers) |->
                              Row("% Change", losers[i].symbol, losers[i].pChange, 0)])
            /\ pc' = "fetch_yfinance_data"
            /\ UNCHANGED log
    /\ results_txt' = File(output_lines', TRUE)
    /\ UNCHANGED <<live_df, symbols, provider, hist_data, gainers, losers,
                   below_high, above_low, returns_30d>>

\* the two loops over gainers.iterrows() and losers.iterrows()
ReportGainersLosers ==
    /\ pc = "report_gainers_losers"
    /\ IF Len(gainers) > 0 /\ "symbol" \notin live_df.cols
       THEN \* row['symbol'] raises KeyError after the first header
            /\ output_lines' = Append(output_lines, Hdr("Top 5 Gainers"))
            /\ RaiseInMain
       ELSE /\ output_lines' = output_lines
               \o Section("Top 5 Gainers",
                          [i \in 1..Len(gainers) |->
                              Row("% Change", gainers[i].symbol, gainers[i].pChange, 0)])
               \o Section("Top 5 Losers",
                          [i \in 1..Len(losers) |->
                              Row("% Change", losers[i].symbol, losers[i].pChange, 0)])
            /\ pc' = "fetch_yfinance_data"
            /\ UNCHANGED log
    /\ UNCHANGED <<live_df, symbols, provider, hist_data, gainers, losers,
                   below_high, above_low, returns_30d, results_txt>>

Report52Week ==
    /\ pc = "report_52week"
    /\ output_lines' = output_lines
          \o Section("Stocks 30% Below 52-Week High",
                     [i \in 1..Len(below_high) |->
                         Row("52-Week High", below_high[i][1], below_high[i][2],
                             below_high[i][3])])
          \o Section("Stocks 20% Above 52-Week Low",
                     [i \in 1..Len(above_low) |->
                         Row("52-Week Low", above_low[i][1], above_low[i][2],
                             above_low[i][3])])
    /\ pc' = "returns_30d"
    /\ UNCHANGED <<live_df, symbols, provider, hist_data, gainers, losers,
                   below_high, above_low, returns_30d, results_txt, log>>

Report30Day ==
    /\ pc = "report_30day"
    /\ output_lines' = output_lines
          \o Section("Top 5 Stocks by 30-Day Return",
                     [i \in 1..Len(Take(returns_30d, TopN)) |->
                         Row("30-Day Return", returns_30d[i][1], returns_30d[i][2].n,
                             returns_30d[i][2].d)])
    /\ pc' = "write_results"
    /\ UNCHANGED <<live_df, symbols, provider, hist_data, gainers, losers,
                   below_high, above_low, returns_30d, results_txt, log>>

\* with open(results_path, "w") as f: f.write("\n".join(output_lines)).
\* The open may raise, which leaves no file; the write may raise after the
\* open has created the file, which leaves any part of the text in it.
WriteResults ==
    /\ pc = "write_results"
    /\ \E outcome \in {"open raises", "write raises", "written"} :
          IF outcome = "written"
          THEN /\ results_txt' = File(output_lines, TRUE)
               /\ pc' = "plot"
               /\ UNCHANGED log
          ELSE IF outcome = "open raises"
          THEN RaiseInMain /\ UNCHANGED results_txt
          ELSE /\ \E k \in 0..(Len(output_lines) - 1) :
                     results_txt' = File(SubSeq(output_lines, 1, k), FALSE)
               /\ RaiseInMain
    /\ UNCHANGED <<live_df, symbols, provider, hist_data, gainers, losers,
                   below_high, above_low, returns_30d, output_lines>>

\* analyzer.plot_gainers_losers(gainers, losers): gainers["symbol"] and
\* savefig may raise; the method logs and re-raises
PlotGainersLosers ==
    /\ pc = "plot"
    /\ \E saved \in BOOLEAN :
          IF saved /\ "symbol" \in live_df.cols
          THEN pc' = "print_results" /\ UNCHANGED log
          ELSE Raise("Error plotting bar charts")
    /\ UNCHANGED <<live_df, symbols, provider, hist_data, gainers, losers,
                   below_high, above_low, returns_30d, output_lines, results_txt>>

\* the file is read back and printed; the open or the read may raise
PrintResults ==
    /\ pc = "print_results"
    /\ \E read \in BOOLEAN :
          IF read THEN pc' = "done" /\ UNCHANGED log ELSE RaiseInMain
    /\ UNCHANGED <<live_df, symbols, provider, hist_data, gainers, losers,
                   below_high, above_low, returns_30d, output_lines, results_txt>>

----------------------------------------------------------------------------
(* Specifications *)

NoFrame == [cols |-> {}, rows |-> <<>>]

\* the state at the first statement of main()
Init ==
    /\ pc = "init_fetcher"
    /\ live_df = NoFrame
    /\ symbols = <<>>
    /\ provider = <<>>
    /\ hist_data = <<>>
    /\ gainers = <<>>
    /\ losers = <<>>
    /\ below_high = <<>>
    /\ above_low = <<>>
    /\ returns_30d = <<>>
    /\ output_lines = <<>>
    /\ results_txt = NoFile
    /\ log = <<>>

Next ==
    \/ FetcherInit
    \/ FetchLiveData
    \/ GetNifty50Symbols
    \/ GetTopGainersLosers
    \/ ReportGainersLosers
    \/ FetchYfinanceData
    \/ Get52WeekAnalysis
    \/ Report52Week
    \/ Get30DayReturns
    \/ Report30Day
    \/ WriteResults
    \/ PlotGainersLosers
    \/ PrintResults

Spec == Init /\ [][Next]_vars

----------------------------------------------------------------------------
(* Specifications of the analytics operations on their own: the operation  *)
(* is called, as main calls it, on inputs drawn from a bounded set.        *)

\* percent changes, in tenths of a percent
PctVals == {-30, 0, 25, 50}

\* no three rows of the snapshot share one percent change
NoTripleTie(q) ==
    \A i, j, k \in 1..Len(q) : (i < j /\ j < k) => ~(q[i] = q[j] /\ q[j] = q[k])

\* The snapshots handed to get_top_gainers_losers: every frame of floats of
\* up to MaxQuotes rows (with ties, but no triple tie), and every frame the
\* live source can deliver
GLFrames ==
    {Frame({"symbol", "pChange"}, [i \in 1..Len(q) |-> FloatCell(q[i])]) :
        q \in {r \in SeqsUpTo(PctVals, MaxQuotes) : NoTripleTie(r)}}
    \cup {DataFrame(r.keys, r.cells) : r \in {x \in LiveResponses : x.has_data}}

\* the dicts of up to n symbols whose frames are drawn from dfs
Stores(dfs, n) ==
    {[i \in 1..Len(q) |-> [sym |-> SymNames[i] \o ".NS", df |-> q[i]]] :
        q \in SeqsUpTo(dfs, n)}

Prices == {50, 60, 63, 70, 90, 100}

\* frames for the per-symbol rules of the 52-week analysis
DF52 ==
    {Hist(q) : q \in SeqsUpTo(Prices, 2)}
    \cup {Hist(<<100, 50, 70>>), HistNoClose(2)}

\* frames for the rankings of the 52-week analysis
DFRank ==
    {Hist(<<100, 50>>), Hist(<<100, 70>>), Hist(<<50, 70>>), Hist(<<50, 100>>),
     Hist(<<100, 50, 70>>)}

\* frames for the 30-day returns
DF30 ==
    {Hist(Series(n, 95, old, cur)) :
        n \in {0, Window - 1, Window, Window + 1, Window + 5},
        old \in {100, 110}, cur \in {100, 110}}
    \cup {HistNoClose(Window - 1), HistNoClose(Window)}

\* the state in which main calls an operation: nothing computed yet
Called(at) ==
    /\ pc = at
    /\ symbols = <<>>
    /\ provider = <<>>
    /\ gainers = <<>>
    /\ losers = <<>>
    /\ below_high = <<>>
    /\ above_low = <<>>
    /\ returns_30d = <<>>
    /\ output_lines = <<>>
    /\ results_txt = NoFile
    /\ log = <<>>

InitGL ==
    /\ Called("top_gainers_losers")
    /\ live_df \in GLFrames
    /\ hist_data = <<>>

SpecGL == InitGL /\ [][GetTopGainersLosers]_vars

Init52 ==
    /\ Called("week52")
    /\ live_df = NoFrame
    /\ hist_data \in Stores(DF52, MaxStore)

Spec52 == Init52 /\ [][Get52WeekAnalysis]_vars

InitRank ==
    /\ Called("week52")
    /\ live_df = NoFrame
    /\ hist_data \in Stores(DFRank, NumSyms)

SpecRank == InitRank /\ [][Get52WeekAnalysis]_vars

Init30 ==
    /\ Called("returns_30d")
    /\ live_df = NoFrame
    /\ hist_data \in Stores(DF30, MaxStore)

Spec30 == Init30 /\ [][Get30DayReturns]_vars

----------------------------------------------------------------------------
(* Properties of get_top_gainers_losers, under SpecGL *)

\* the strings of the model that read as a number once '%' is removed
NumeralStrings == {<<"-", "3", ".", "0", "%">>}

\* the snapshot has a pChange column and every cell of it is a number or a
\* numeral string
ParsableSnapshot ==
    /\ "pChange" \in live_df.cols
    /\ \A i \in 1..Len(live_df.rows) :
          \/ live_df.rows[i].pChange.t = "float"
          \/ live_df.rows[i].pChange.s \in NumeralStrings

\* the list holds min(5, |Q|) distinct rows of the snapshot, each with its
\* own percent change, and no row left out beats (sign = 1: exceeds,
\* sign = -1: is below) a row of the list
TopRowsOf(list, sign) ==
    LET n == Len(live_df.rows)
    IN  /\ Len(list) = IF n < 5 THEN n ELSE 5
        /\ \A k \in 1..Len(list) :
              /\ list[k].idx \in 1..n
              /\ list[k].pChange = live_df.rows[list[k].idx].pChange.v
              /\ list[k].symbol = live_df.rows[list[k].idx].symbol
        /\ \A k, m \in 1..Len(list) : k # m => list[k].idx # list[m].idx
        /\ \A k \in 1..(Len(list) - 1) :
              sign * list[k].pChange >= sign * list[k + 1].pChange
        /\ \A i \in 1..n :
              (\A k \in 1..Len(list) : list[k].idx # i)
                 => \A k \in 1..Len(list) :
                       sign * live_df.rows[i].pChange.v <= sign * list[k].pChange

\* C1: for every snapshot with parsable percent changes the call does not
\* raise, and gainers and losers each hold exactly min(5, |Q|) rows of the
\* snapshot, gainers in non-increasing and losers in non-decreasing order of
\* pChange, with no padding when |Q| < 5.
C1_TopFiveSorted ==
    /\ ParsableSnapshot => pc # "done"
    /\ pc = "report_gainers_losers" => TopRowsOf(gainers, 1) /\ TopRowsOf(losers, -1)

\* a snapshot of more than five rows was truncated to its five best and
\* five worst, which differ
C1_Witness ==
    /\ pc = "report_gainers_losers"
    /\ Len(live_df.rows) = 6
    /\ Len(gainers) = 5 /\ Len(losers) = 5
    /\ gainers[1].pChange > gainers[5].pChange
    /\ losers[1].pChange < gainers[5].pChange

\* rows of equal percent change keep the order of the snapshot
TiesInInputOrder(list) ==
    \A k, m \in 1..Len(list) :
        (k < m /\ list[k].pChange = list[m].pChange) => list[k].idx < list[m].idx

\* C2: in both result lists, two quotes of equal percent change appear in
\* the order they have in the input snapshot (stable tie-break).
C2_StableTies ==
    pc = "report_gainers_losers" => TiesInInputOrder(gainers) /\ TiesInInputOrder(losers)

\* C3: no analytics operation changes its inputs: the snapshot table (every
\* pChange cell's value and type) and every series of the store are the same
\* after the call as before it.
C3_InputsUnchanged ==
    [][(pc \in {"top_gainers_losers", "week52", "returns_30d"})
          => (live_df' = live_df /\ hist_data' = hist_data)]_vars

----------------------------------------------------------------------------
(* Properties of get_52week_analysis *)

SeqRange(q) == {q[i] : i \in 1..Len(q)}
Highest(q) == CHOOSE x \in SeqRange(q) : \A y \in SeqRange(q) : x >= y
Lowest(q) == CHOOSE x \in SeqRange(q) : \A y \in SeqRange(q) : x <= y

\* the symbols of a result list of tuples
SymsIn(list) == {list[k][1] : k \in 1..Len(list)}

\* the items of the store that hold a non-empty series of closes
WithSeries == {i \in 1..Len(hist_data) :
                  hist_data[i].df.close_col /\ Len(hist_data[i].df.close) > 0}

CurOf(i) == hist_data[i].df.close[Len(hist_data[i].df.close)]
HighOf(i) == Highest(hist_data[i].df.close)
LowOf(i) == Lowest(hist_data[i].df.close)

\* currentPrice <= 0.70 * high, currentPrice >= 1.20 * low
QualBelow == {i \in WithSeries : 10 * CurOf(i) <= 7 * HighOf(i)}
QualAbove == {i \in WithSeries : 10 * CurOf(i) >= 12 * LowOf(i)}

\* C4: an empty series contributes to neither list; a symbol with a
\* non-empty series is in belowHigh, with its current price and high, iff
\* currentPrice <= 0.70 * high and in aboveLow, with its current price and
\* low, iff currentPrice >= 1.20 * low, both boundaries inclusive (stores of
\* at most five symbols, so that no candidate is cut off).
C4_Thresholds ==
    (pc = "report_52week" /\ Len(hist_data) <= 5) =>
        /\ \A i \in 1..Len(hist_data) :
              Len(hist_data[i].df.close) = 0
                 => hist_data[i].sym \notin SymsIn(below_high) \cup SymsIn(above_low)
        /\ \A i \in WithSeries :
              /\ (i \in QualBelow) <=>
                    (\E k \in 1..Len(below_high) :
                        below_high[k] = <<hist_data[i].sym, CurOf(i), HighOf(i)>>)
              /\ (i \in QualBelow) <=> (hist_data[i].sym \in SymsIn(below_high))
              /\ (i \in QualAbove) <=>
                    (\E k \in 1..Len(above_low) :
                        above_low[k] = <<hist_data[i].sym, CurOf(i), LowOf(i)>>)
              /\ (i \in QualAbove) <=> (hist_data[i].sym \in SymsIn(above_low))

\* C5: a symbol whose closes all have one value (currentPrice = high = low)
\* is in neither belowHigh nor aboveLow.
C5_FlatSeriesExcluded ==
    pc = "report_52week" =>
        \A i \in WithSeries :
            (CurOf(i) = HighOf(i) /\ CurOf(i) = LowOf(i))
               => hist_data[i].sym \notin SymsIn(below_high) \cup SymsIn(above_low)

\* the analysis ran on a store with a flat series of two closes
C5_Witness ==
    /\ pc = "report_52week"
    /\ \E i \in WithSeries :
          /\ Len(hist_data[i].df.close) = 2
          /\ CurOf(i) = HighOf(i) /\ CurOf(i) = LowOf(i)
    /\ Len(above_low) > 0

\* the item of the store a result tuple stands for
ItemOf(t) == CHOOSE i \in 1..Len(hist_data) : hist_data[i].sym = t[1]

\* list is the first min(5, |qual|) of the qualifying items ranked by
\* currentPrice / extreme (sign = 1: ascending, sign = -1: descending), and
\* no qualifying item left out has a strictly better ratio than a listed one
RankedTop(list, qual, sign) ==
    /\ Len(list) = IF Cardinality(qual) < 5 THEN Cardinality(qual) ELSE 5
    /\ \A k \in 1..Len(list) :
          /\ list[k][1] \in {hist_data[i].sym : i \in qual}
          /\ list[k][2] = CurOf(ItemOf(list[k]))
          /\ list[k][3] = IF sign = 1 THEN HighOf(ItemOf(list[k]))
                                      ELSE LowOf(ItemOf(list[k]))
    /\ \A k, m \in 1..Len(list) : k # m => list[k][1] # list[m][1]
    /\ \A k \in 1..(Len(list) - 1) :
          sign * list[k][2] * list[k + 1][3] <= sign * list[k + 1][2] * list[k][3]
    /\ \A i \in qual :
          hist_data[i].sym \notin SymsIn(list)
             => \A k \in 1..Len(list) :
                   LET ext == IF sign = 1 THEN HighOf(i) ELSE LowOf(i)
                   IN  ~(sign * CurOf(i) * list[k][3] < sign * list[k][2] * ext)

\* C6: belowHigh is the first 5 qualifying symbols ranked ascending by
\* currentPrice / high and aboveLow the first 5 ranked descending by
\* currentPrice / low; each has min(5, number qualifying) entries and no
\* qualifying symbol left out has a strictly better ratio than a listed one.
C6_Ranked ==
    pc = "report_52week" =>
        RankedTop(below_high, QualBelow, 1) /\ RankedTop(above_low, QualAbove, -1)

\* six symbols qualify for belowHigh with different ratios and five are
\* kept, while aboveLow ranks two symbols of different ratios
C6_Witness ==
    /\ pc = "report_52week"
    /\ Cardinality(QualBelow) = 6
    /\ Len(below_high) = 5
    /\ below_high[1][2] * below_high[5][3] < below_high[5][2] * below_high[1][3]
    /\ Len(above_low) >= 1

----------------------------------------------------------------------------
(* Properties of get_30day_returns, under Spec30 *)

\* the number of entries of the result for a symbol
EntriesFor(sym) == Cardinality({k \in 1..Len(returns_30d) : returns_30d[k][1] = sym})

\* C7: no entry for a symbol whose series has fewer than 30 observations
\* (29, or none), exactly one entry for a symbol whose series of closes has
\* 30 or more; no symbol twice, no symbol from outside the store.
C7_WindowOf30 ==
    pc = "report_30day" =>
        /\ \A i \in 1..Len(hist_data) :
              /\ Len(hist_data[i].df.close) < 30 => EntriesFor(hist_data[i].sym) = 0
              /\ (hist_data[i].df.close_col /\ Len(hist_data[i].df.close) >= 30)
                    => EntriesFor(hist_data[i].sym) = 1
              /\ EntriesFor(hist_data[i].sym) <= 1
        /\ SymsIn(returns_30d) \subseteq Keys(hist_data)

\* a series of 29 closes gave no entry and one of exactly 30 gave one
C7_Witness ==
    /\ pc = "report_30day"
    /\ \E i, j \in 1..Len(hist_data) :
          /\ hist_data[i].df.close_col /\ Len(hist_data[i].df.close) = 29
          /\ hist_data[j].df.close_col /\ Len(hist_data[j].df.close) = 30
          /\ EntriesFor(hist_data[i].sym) = 0
          /\ EntriesFor(hist_data[j].sym) = 1

\* C8: every entry has returnPercent = (lastClose - c) / c * 100 with c the
\* close at index length - 30 (counting from 0), and the list is in
\* non-increasing order of returnPercent.
C8_ReturnFormula ==
    pc = "report_30day" =>
        /\ \A k \in 1..Len(returns_30d) :
              LET q    == hist_data[ItemOf(returns_30d[k])].df.close
                  c    == q[(Len(q) - 30) + 1]
                  last == q[Len(q)]
                  ret  == returns_30d[k][2]
              IN  ret.d > 0 /\ ret.n * c = (last - c) * 100 * ret.d
        /\ \A k \in 1..(Len(returns_30d) - 1) :
              returns_30d[k][2].n * returns_30d[k + 1][2].d
                 >= returns_30d[k + 1][2].n * returns_30d[k][2].d

\* 35 closes ending at 110 with the 30th from the end at 100 give 10, ranked
\* above a negative return
C8_Witness ==
    /\ pc = "report_30day"
    /\ Len(returns_30d) = 2
    /\ LET q == hist_data[ItemOf(returns_30d[1])].df.close
       IN  Len(q) = 35 /\ q[35] = 110 /\ q[6] = 100
    /\ returns_30d[1][2].n = 10 * returns_30d[1][2].d
    /\ returns_30d[2][2].n < 0

----------------------------------------------------------------------------
(* Properties of a run of main, under Spec *)

Titles == <<"Top 5 Gainers", "Top 5 Losers", "Stocks 30% Below 52-Week High",
            "Stocks 20% Above 52-Week Low", "Top 5 Stocks by 30-Day Return">>

\* the lines are the five sections, in order, each closed by its separator
Complete(lines) ==
    LET headers == SelectSeq(lines, LAMBDA l : l.t = "header")
        seps    == SelectSeq(lines, LAMBDA l : l.t = "separator")
    IN  /\ Len(headers) = 5
        /\ \A i \in 1..5 : headers[i].text = Titles[i]
        /\ Len(seps) = 5
        /\ lines[Len(lines)].t = "separator"

Logged(rec) == \E k \in 1..Len(log) : log[k] = rec

RECURSIVE Pick(_, _)
\* the members of q at the positions in S, in order
Pick(q, S) ==
    IF Len(q) = 0 THEN <<>>
    ELSE LET r == Pick(SubSeq(q, 1, Len(q) - 1), S)
         IN  IF Len(q) \in S THEN Append(r, q[Len(q)]) ELSE r

\* the requests whose history came back and was not empty
Fetched == {i \in 1..Len(symbols) :
               ~provider[i].raised /\ Len(provider[i].df.close) > 0}

\* the items of the store whose frame has its Close column
Sound == {i \in 1..Len(hist_data) : hist_data[i].df.close_col}

Unsound == {hist_data[i].sym : i \in (1..Len(hist_data)) \ Sound}

\* what holds of the results once the step that computes them is over
C9_Results ==
    /\ pc \in {"week52", "report_52week", "returns_30d", "report_30day",
               "write_results", "plot", "print_results"}
          => /\ Keys(hist_data) = {symbols[i] : i \in Fetched}
             /\ hist_data = FetchLoop(Pick(symbols, Fetched),
                                      Pick(provider, Fetched)).data
    /\ pc \in {"report_52week", "returns_30d", "report_30day", "write_results",
               "plot", "print_results"}
          => /\ below_high = Week52BelowHigh(Pick(hist_data, Sound))
             /\ above_low = Week52AboveLow(Pick(hist_data, Sound))
             /\ (SymsIn(below_high) \cup SymsIn(above_low)) \cap Unsound = {}
    /\ pc \in {"report_30day", "write_results", "plot", "print_results"}
          => /\ returns_30d = Returns30(Pick(hist_data, Sound))
             /\ SymsIn(returns_30d) \cap Unsound = {}
    /\ pc = "write_results" => Complete(output_lines)
    /\ results_txt.closed => Complete(results_txt.lines)

\* the steps from the history fetch to the last section never end the run
C9_Steps ==
    (pc \in {"fetch_yfinance_data", "week52", "report_52week", "returns_30d",
             "report_30day"})
        => (pc' # "done" /\ ~Logged(MainError)')

\* C9: per-symbol problems never abort the batch or the run: whatever
\* symbols fail to fetch, come back empty, or raise in the 52-week or 30-day
\* computation, the three operations return normally, those symbols are
\* left out of the affected result, the other symbols are processed as if
\* the affected ones were not present, and the report main writes has all
\* five sections.
C9_PerSymbolFailuresSkipped == []C9_Results /\ [][C9_Steps]_vars

\* a report was written in a run where one symbol's fetch raised or its
\* frame had no Close column, and another symbol has its 30-day return
C9_Witness ==
    /\ pc = "plot"
    /\ results_txt.closed
    /\ \E i \in 1..Len(symbols) :
          \/ provider[i].raised
          \/ symbols[i] \in Unsound
    /\ Logged(Err("Error in 52-week analysis", "A.NS")) \/ Logged(Err("Error fetching data", "A.NS"))
    /\ Len(returns_30d) = 1
    /\ Len(below_high) = 0

\* C10 as stated: a run in which any step's error reaches main's handler
\* writes no results.txt, and no report is written with only some of the
\* five sections.
C10_FailedRunNoReport ==
    /\ Logged(MainError) => ~results_txt.written
    /\ results_txt.written => Complete(results_txt.lines)

\* a report whose write ran to its end is complete; a run that ended
\* without one logged the error last
C10_State ==
    /\ results_txt.closed
          => (Complete(results_txt.lines) /\ results_txt.lines = output_lines)
    /\ (results_txt.written /\ ~results_txt.closed) => Logged(MainError)
    /\ (pc = "done" /\ ~results_txt.written)
          => (Len(log) > 0 /\ log[Len(log)] = MainError)
    /\ Logged(MainError) => (pc = "done" /\ log[Len(log)] = MainError)

\* an error that reaches main's handler from any step before the write
\* leaves no file
C10_Steps ==
    (pc' = "done" /\ Logged(MainError)'
          /\ pc \notin {"write_results", "plot", "print_results"})
        => ~results_txt.written'

\* C10 (amended): an error that reaches main's handler from any step before
\* results.txt is opened is logged and no file is written in that run; an
\* error raised after the write (plotting, reading the file back) is logged
\* too and leaves the complete report; a write that runs to its end writes
\* all five sections, and only a write that itself raises, which is logged,
\* can leave part of the report.
C10_NoPartialReport == []C10_State /\ [][C10_Steps]_vars

\* a run that failed on an unparsable pChange: logged twice, no report
C10_Witness ==
    /\ pc = "done"
    /\ ~results_txt.written
    /\ Logged(Err("Error computing top gainers/losers", ""))
    /\ log[Len(log)] = MainError

====
